---------------------------- MODULE Spec2Model ----------------------------
(***************************************************************************)
(* Model of pytsa: the rule engine (trajectories/rules.py), the track      *)
(* partitioner (trajectories/inspect.py) and the SearchAgent               *)
(* (tsea/search_agent.py).  Each component has its own specification over  *)
(* the shared variables; the variables of the other components rest at     *)
(* their idle values.                                                      *)
(***************************************************************************)
EXTENDS Integers, Sequences, FiniteSets, TLC

VARIABLES
    \* ---- rules.py: one Recipe object and its cooked predicate
    r_funcs,      \* Recipe.funcs: the rules handed to Recipe(...)
    r_state,      \* "none" | "constructed" | "raised"
    r_exc,        \* exception raised by Recipe.__init__ ("" when none)
    r_track,      \* last track the cooked predicate was evaluated on
    r_verdict,    \* its result
    r_evals,      \* number of evaluations of the cooked predicate
    \* ---- inspect.py: one Inspector object
    data,         \* Inspector.data: sequence of vessels (dict order)
    recipe,       \* rules of the Recipe cooked into Inspector.recipe
    accepted,     \* Inspector.accepted
    rejected,     \* Inspector.rejected
    ret,          \* value returned by the last inspect call
    i_status,     \* "idle" | "returned" | name of the exception raised
    i_report,     \* arguments of the last print_rejection_rate call
    ncalls,       \* number of inspect calls made on this Inspector
    \* ---- search_agent.py: construct_target_vessels
    df,           \* the DataFrame handed to construct_target_vessels
    c_skip,       \* skip_tsplit argument of the caller
    c_pc,         \* position in the running call ("idle" when none runs)
    c_overlap,    \* overlap argument of the running single-process call
    c_tpos,       \* tpos.timestamp of the running single-process call
    stream,       \* the sorted rows the running loop walks through
    idx,          \* index of the next row of `stream`
    targets,      \* single-process path: the dict `targets`
    tv,           \* worker: the TargetShip under construction
    frames,       \* multi-process path: _distribute(df)
    f_idx,        \* index of the frame the current worker call handles
    pool_results, \* results of the finished worker calls
    c_results,    \* value returned by each path's last call
    c_done,       \* whether each path has returned
    \* ---- search_agent.py: _get_neighbors
    dynamic_msgs, \* SearchAgent.dynamic_msgs: the buffered reports
    max_tgt_ships,\* SearchAgent.max_tgt_ships
    n_tpos,       \* tpos.timestamp of the last _get_neighbors call
    n_radius,     \* search_radius of the last call
    n_status,     \* "idle" | "returned" | name of the exception raised
    n_result,     \* rows returned by the last call
    n_warned,     \* whether the last call logged the empty-window warning
    tree_built,   \* whether the last call built a kd-tree
    \* ---- search_agent.py: the SearchAgent object (init, get_ships)
    msg12318files,   \* contents of the dynamic message files, one per path
    _is_initialized, \* SearchAgent._is_initialized
    _n_original,     \* SearchAgent._n_original
    _n_filtered,     \* SearchAgent._n_filtered
    tables,          \* which of the attributes dynamic_msgs, static_msgs are set
    n_inits,         \* number of init calls made on this agent
    a_call,          \* the last call made on the agent
    a_status,        \* "idle" | "returned" | name of the exception raised
    a_trace,         \* the steps the last get_ships call went through
    g_tgts,          \* the targets handed to _interpolate_trajectories
    g_mode,          \* the interpolation mode of that call
    g_result,        \* the targets returned by the last call
    \* ---- search_agent.py: _speed_correction
    k_targets,           \* the targets handed to _speed_correction
    _n_speed_correction, \* SearchAgent._n_speed_correction
    k_status,            \* "idle" | "returned" | name of the exception raised
    \* ---- rules.py: too_small_span
    span_track,   \* the track too_small_span is called with
    span_arg,     \* its argument `span`
    span_ret      \* what the call returned ("none" before the call)

rvars == <<r_funcs, r_state, r_exc, r_track, r_verdict, r_evals>>
ivars == <<data, recipe, accepted, rejected, ret, i_status, i_report, ncalls>>
cvars == <<df, c_skip, c_pc, c_overlap, c_tpos, stream, idx, targets, tv, frames,
           f_idx, pool_results, c_results, c_done>>
nvars == <<dynamic_msgs, max_tgt_ships, n_tpos, n_radius, n_status, n_result, n_warned,
           tree_built>>
avars == <<msg12318files, _is_initialized, _n_original, _n_filtered, tables, n_inits,
           a_call, a_status, a_trace, g_tgts, g_mode, g_result>>
kvars == <<k_targets, _n_speed_correction, k_status>>
zvars == <<span_track, span_arg, span_ret>>
xvars == <<avars, kvars, zvars>>
vars == <<rvars, ivars, cvars, nvars, xvars>>

-----------------------------------------------------------------------------
(* Bounds *)
MaxTrackLen == 5      \* longest track handed to a cooked predicate
MaxN == 3             \* largest n fixed by partial(too_few_obs, n=...)
MaxRules == 2         \* most rules in one Recipe
MaxTracks == 2        \* most tracks of one vessel in Inspector.data
MaxJobs == 3          \* largest njobs
MaxCalls == 2         \* most inspect calls on one Inspector
MaxTs == 4            \* largest timestamp of a report
MaxReports == 3       \* most rows of the DataFrame handed to construction
MaxTGap == 1          \* largest time gap that does not split a track
MaxCoord == 1         \* largest latitude/longitude of a buffered report [deg]
MaxMsgs == 2          \* most buffered reports
MaxK == 3             \* largest max_tgt_ships
MaxRadiusSteps == 2   \* largest search radius, in steps of 30 nm
MaxFileRows == 3      \* most rows in the dynamic message files of an agent
MaxInits == 2         \* most init calls on one SearchAgent
MaxSog == 2           \* largest reported speed over ground

(* Program constants *)
time_delta == 30      \* minutes
NmPerDegree == 60
Infinity == -1        \* stands for np.inf

-----------------------------------------------------------------------------
(* Generic helpers *)
Range(s) == {s[i] : i \in 1..Len(s)}

SeqsUpTo(S, n) == UNION {[1..k -> S] : k \in 0..n}

RECURSIVE SumSeq(_)
SumSeq(s) == IF s = <<>> THEN 0 ELSE Head(s) + SumSeq(Tail(s))

\* a track whose reports carry the timestamps a..b
Run(a, b) == [i \in 1..(b - a + 1) |-> a + i - 1]

-----------------------------------------------------------------------------
(* rules.py *)

TrackAnn == "list[AISMessage]"

\* a parameter of a signature
Param(name, ann) == [name |-> name, ann |-> ann, kind |-> "POSITIONAL_OR_KEYWORD",
                     default |-> FALSE]

\* a Python object handed to Recipe(...): a def, a partial of a def, or a
\* non-callable.  kw: the keyword arguments fixed by functools.partial.
Def(params, retann, body) ==
    [callable |-> TRUE, params |-> params, ret |-> retann, kw |-> {},
     body |-> body, n |-> 0]

\* functools.partial(func, n=n)
Partial(func, n) == [func EXCEPT !.kw = {"n"}, !.n = n]

\* def too_few_obs(track: list[AISMessage], n: int) -> bool
too_few_obs == Def(<<Param("track", TrackAnn), Param("n", "int")>>, "bool", "too_few_obs")

\* rules of the callers: R1 always true, R2 always false
AlwaysTrue == Def(<<Param("track", TrackAnn)>>, "bool", "true")
AlwaysFalse == Def(<<Param("track", TrackAnn)>>, "bool", "false")
\* def short(track: list[AISMessage]) -> bool: return too_few_obs(track, 3)
ShortTrack == [Def(<<Param("track", TrackAnn)>>, "bool", "too_few_obs") EXCEPT !.n = 3]

\* objects that are not rules
NotCallable == [Def(<<>>, "", "none") EXCEPT !.callable = FALSE]
NoParams == Def(<<>>, "bool", "true")
WrongParamType == Def(<<Param("track", "int")>>, "bool", "true")
WrongReturn == Def(<<Param("track", TrackAnn)>>, "int", "true")
NoReturnAnn == Def(<<Param("track", TrackAnn)>>, "", "true")
OtherNameWrongType == Def(<<Param("x", "int")>>, "bool", "true")
\* a rule whose only parameter is a Track but is not called `track`
OtherName == Def(<<Param("t", TrackAnn)>>, "bool", "false")

PartialRules == {Partial(too_few_obs, n) : n \in 1..MaxN}

RuleObjects ==
    {AlwaysTrue, AlwaysFalse, ShortTrack, too_few_obs, NotCallable, NoParams,
     WrongParamType, WrongReturn, NoReturnAnn, OtherNameWrongType, OtherName}
    \cup PartialRules

\* inspect.signature(func).parameters: a keyword fixed by partial stays in
\* the signature, as a keyword-only parameter with a default
SigParams(func) ==
    [i \in 1..Len(func.params) |->
        IF \E j \in 1..i : func.params[j].name \in func.kw
        THEN [func.params[i] EXCEPT !.kind = "KEYWORD_ONLY",
                                    !.default = (func.params[i].name \in func.kw)]
        ELSE func.params[i]]

\* _check_signature: "ok" or the exception it raises
_check_signature(func) ==
    IF ~func.callable THEN "TypeError"
    ELSE LET ps == SigParams(func) IN
         IF Len(ps) # 1 THEN "TypeError"
         ELSE IF ~(\E i \in 1..Len(ps) : ps[i].name = "track") THEN "KeyError"
         ELSE IF ps[1].ann # TrackAnn THEN "TypeError"
         ELSE IF func.ret # "bool" THEN "TypeError"
         ELSE "ok"

\* Recipe.__init__: the first rule that fails the check raises
RECURSIVE RecipeInit(_)
RecipeInit(funcs) ==
    IF funcs = <<>> THEN "ok"
    ELSE IF _check_signature(Head(funcs)) # "ok" THEN _check_signature(Head(funcs))
    ELSE RecipeInit(Tail(funcs))

\* func(track)
CallRule(func, track) ==
    CASE func.body = "true" -> TRUE
      [] func.body = "false" -> FALSE
      [] func.body = "too_few_obs" -> Len(track) < func.n
      [] OTHER -> FALSE

cooked_any(funcs, track) == \E i \in 1..Len(funcs) : CallRule(funcs[i], track)

\* Recipe.cook(): all(func(track) for func in self.funcs)
RECURSIVE cooked(_, _)
cooked(funcs, track) ==
    IF funcs = <<>> THEN TRUE
    ELSE IF ~CallRule(Head(funcs), track) THEN FALSE
    ELSE cooked(Tail(funcs), track)

RecipeTracks == {Run(1, n) : n \in 0..MaxTrackLen}

RIdle ==
    /\ r_funcs = <<>>
    /\ r_state = "none"
    /\ r_exc = ""
    /\ r_track = <<>>
    /\ r_verdict = FALSE
    /\ r_evals = 0

\* Recipe(*funcs)
NewRecipe(funcs) ==
    /\ r_state = "none"
    /\ r_funcs' = funcs
    /\ r_exc' = IF RecipeInit(funcs) = "ok" THEN "" ELSE RecipeInit(funcs)
    /\ r_state' = IF RecipeInit(funcs) = "ok" THEN "constructed" ELSE "raised"
    /\ UNCHANGED <<r_track, r_verdict, r_evals, ivars, cvars, nvars, xvars>>

\* recipe.cook()(track)
EvalCooked(track) ==
    /\ r_state = "constructed"
    /\ r_evals < 1
    /\ r_track' = track
    /\ r_verdict' = cooked(r_funcs, track)
    /\ r_evals' = r_evals + 1
    /\ UNCHANGED <<r_funcs, r_state, r_exc, ivars, cvars, nvars, xvars>>

-----------------------------------------------------------------------------
(* inspect.py *)

\* the vessel identifiers of the buffered reports
Mmsis == {1, 2}

\* _get_ship_type(mmsi): the ship type of the static messages
_get_ship_type(mmsi) == IF mmsi = 1 THEN 30 ELSE 70

\* Targets (dict[MMSI,TargetShip]) is a sequence of vessels in insertion
\* order, at most one per mmsi
TargetShip(mmsi, ship_type, tracks) ==
    [mmsi |-> mmsi, ship_type |-> ship_type, tracks |-> tracks]

HasKey(tgts, mmsi) == \E i \in 1..Len(tgts) : tgts[i].mmsi = mmsi
KeyIndex(tgts, mmsi) == CHOOSE i \in 1..Len(tgts) : tgts[i].mmsi = mmsi
Keys(tgts) == {tgts[i].mmsi : i \in 1..Len(tgts)}
Get(tgts, mmsi) == tgts[KeyIndex(tgts, mmsi)]

\* a copy of the vessel that keeps its track list
_copy_track_keep(vessel, target, track) ==
    LET t1 == IF HasKey(target, vessel.mmsi) THEN target
              ELSE Append(target, vessel)
        i == KeyIndex(t1, vessel.mmsi)
    IN [t1 EXCEPT ![i].tracks = Append(@, track)]

\* Inspector._copy_track
_copy_track(vessel, target, track) ==
    LET t1 == IF HasKey(target, vessel.mmsi) THEN target
              ELSE Append(target, [vessel EXCEPT !.tracks = <<>>])
        i == KeyIndex(t1, vessel.mmsi)
    IN [t1 EXCEPT ![i].tracks = Append(@, track)]

\* the inner loop of _inspect_impl: the tracks of one vessel
RECURSIVE InspectTracks(_, _, _, _)
InspectTracks(vessel, tracks, funcs, st) ==
    IF tracks = <<>> THEN st
    ELSE LET track == Head(tracks)
             st1 == IF cooked(funcs, track)
                    THEN [st EXCEPT !.r = _copy_track(vessel, st.r, track),
                                    !.n = @ + 1]
                    ELSE [st EXCEPT !.a = _copy_track(vessel, st.a, track),
                                    !.n = @ + 1]
         IN InspectTracks(vessel, Tail(tracks), funcs, st1)

\* Inspector._inspect_impl: st = [a |-> self.accepted, r |-> self.rejected, n |-> _n]
RECURSIVE _inspect_impl(_, _, _)
_inspect_impl(tgts, funcs, st) ==
    IF tgts = <<>> THEN st
    ELSE _inspect_impl(Tail(tgts), funcs,
                       InspectTracks(Head(tgts), Head(tgts).tracks, funcs, st))

\* target[vessel.mmsi] is the vessel itself instead of a copy of it, so that
\* emptying the entry's track list empties the vessel's
VesselAfterCopy_shared(vessel) == [vessel EXCEPT !.tracks = <<>>]

\* target[vessel.mmsi] = deepcopy(vessel); target[vessel.mmsi].tracks = []:
\* the vessel passed in after the two statements; the entry is another
\* object, the vessel keeps its track list
VesselAfterCopy(vessel) == vessel

\* the input vessels after _inspect_impl went from the collections a0, r0 to
\* a1, r1: a vessel was copied where a key is new
SourceAfter(tgts, a0, r0, a1, r1) ==
    [i \in 1..Len(tgts) |->
        IF \/ HasKey(a1, tgts[i].mmsi) /\ ~HasKey(a0, tgts[i].mmsi)
           \/ HasKey(r1, tgts[i].mmsi) /\ ~HasKey(r0, tgts[i].mmsi)
        THEN VesselAfterCopy(tgts[i])
        ELSE tgts[i]]

\* n_rejected = sum(len(r.tracks) for r in r.values())
NRejected(r) == SumSeq([i \in 1..Len(r) |-> Len(r[i].tracks)])

\* pickle of the bound method self._inspect_impl, which pickles the Inspector
\* with its attribute `recipe`: the function `cooked` is local to Recipe.cook
\* and a local function cannot be pickled
CookedIsLocal == TRUE
PicklableInspector == ~CookedIsLocal

NoRet == [a |-> <<>>, r |-> <<>>]
NoReport == [n_rejected |-> 0, n_total |-> 0]

\* the track lists a constructed vessel can carry: consecutive runs of
\* reports, each of 2 or 3 reports
RECURSIVE RunsFrom(_, _)
RunsFrom(lens, start) ==
    IF lens = <<>> THEN <<>>
    ELSE <<Run(start, start + Head(lens) - 1)>>
         \o RunsFrom(Tail(lens), start + Head(lens))

TrackLists == {RunsFrom(lens, 1) : lens \in SeqsUpTo({2, 3}, MaxTracks)}

\* Inspector.data: the first k vessels, vessel i under the key mmsi i
DataSets ==
    UNION {{[i \in 1..k |-> TargetShip(i, _get_ship_type(i), tl[i])] :
              tl \in [1..k -> TrackLists]}
           : k \in 0..Cardinality(Mmsis)}

InspectRecipes ==
    {<<ShortTrack>>, <<AlwaysTrue>>, <<AlwaysFalse>>, <<AlwaysTrue, ShortTrack>>}

IIdle ==
    /\ data = <<>>
    /\ recipe = <<>>
    /\ accepted = <<>>
    /\ rejected = <<>>
    /\ ret = NoRet
    /\ i_status = "idle"
    /\ i_report = NoReport
    /\ ncalls = 0

\* Inspector(data, recipe): recipe is a constructed Recipe
InspectorInit ==
    /\ data \in DataSets
    /\ recipe \in InspectRecipes
    /\ RecipeInit(recipe) = "ok"
    /\ accepted = <<>>
    /\ rejected = <<>>
    /\ ret = NoRet
    /\ i_status = "idle"
    /\ i_report = NoReport
    /\ ncalls = 0

\* inspect(njobs=1)
InspectSequential ==
    /\ ncalls < MaxCalls
    /\ ncalls' = ncalls + 1
    /\ LET st == _inspect_impl(data, recipe, [a |-> accepted, r |-> rejected, n |-> 0])
       IN /\ accepted' = st.a
          /\ rejected' = st.r
          /\ data' = SourceAfter(data, accepted, rejected, st.a, st.r)
          /\ IF st.n = 0
             THEN \* print_rejection_rate divides by n_total
                  /\ i_status' = "ZeroDivisionError"
                  /\ ret' = NoRet
                  /\ i_report' = NoReport
             ELSE /\ i_status' = "returned"
                  /\ ret' = [a |-> st.a, r |-> st.r]
                  /\ i_report' = [n_rejected |-> NRejected(st.r), n_total |-> st.n]
    /\ UNCHANGED <<recipe, rvars, cvars, nvars, xvars>>

\* np.array_split(items, njobs): the first Len(items) % njobs chunks hold one
\* item more than the others
ChunkSize(len, njobs, j) == (len \div njobs) + (IF j <= len % njobs THEN 1 ELSE 0)

RECURSIVE ChunkStart(_, _, _)
ChunkStart(len, njobs, j) ==
    IF j = 1 THEN 1 ELSE ChunkStart(len, njobs, j - 1) + ChunkSize(len, njobs, j - 1)

array_split(items, njobs) ==
    [j \in 1..njobs |->
        SubSeq(items, ChunkStart(Len(items), njobs, j),
               ChunkStart(Len(items), njobs, j) + ChunkSize(Len(items), njobs, j) - 1)]

\* dict.update(other)
RECURSIVE Update(_, _)
Update(target, other) ==
    IF other = <<>> THEN target
    ELSE LET v == Head(other)
             t1 == IF HasKey(target, v.mmsi)
                   THEN [target EXCEPT ![KeyIndex(target, v.mmsi)] = v]
                   ELSE Append(target, v)
         IN Update(t1, Tail(other))

\* a_out.update(a) / r_out.update(r) over the workers' results
RECURSIVE MergeResults(_, _)
MergeResults(results, out) ==
    IF results = <<>> THEN out
    ELSE MergeResults(Tail(results),
                      [a |-> Update(out.a, Head(results).a),
                       r |-> Update(out.r, Head(results).r),
                       n |-> out.n + Head(results).n])

\* pool.map(self._inspect_impl, chunks): every task runs on its own unpickled
\* copy of the Inspector
PoolMap(chunks, funcs, acc, rej) ==
    [j \in 1..Len(chunks) |->
        _inspect_impl(chunks[j], funcs, [a |-> acc, r |-> rej, n |-> 0])]

\* inspect(njobs) with njobs > 1
InspectParallel(njobs) ==
    /\ njobs > 1
    /\ ncalls < MaxCalls
    /\ ncalls' = ncalls + 1
    /\ IF data = <<>>
       THEN \* mmsis, target_ships = zip(*items)
            /\ i_status' = "ValueError"
            /\ ret' = NoRet
            /\ i_report' = NoReport
       ELSE IF ~PicklableInspector
       THEN \* pool.map cannot send self._inspect_impl to the workers
            /\ i_status' = "AttributeError"
            /\ ret' = NoRet
            /\ i_report' = NoReport
       ELSE LET out == MergeResults(
                          PoolMap(array_split(data, njobs), recipe, accepted, rejected),
                          [a |-> <<>>, r |-> <<>>, n |-> 0])
            IN IF out.n = 0
               THEN /\ i_status' = "ZeroDivisionError"
                    /\ ret' = NoRet
                    /\ i_report' = NoReport
               ELSE /\ i_status' = "returned"
                    /\ ret' = [a |-> out.a, r |-> out.r]
                    /\ i_report' = [n_rejected |-> NRejected(out.r), n_total |-> out.n]
    /\ UNCHANGED <<data, recipe, accepted, rejected, rvars, cvars, nvars, xvars>>

-----------------------------------------------------------------------------
(* search_agent.py: track construction *)

\* a row of the DataFrame / an AISMessage
Report(mmsi, ts) == [mmsi |-> mmsi, ts |-> ts]
Reports == {Report(m, t) : m \in Mmsis, t \in 1..MaxTs}

\* DataFrames after _load_dynamic_messages: no two rows with the same
\* timestamp and MMSI (drop_duplicates); the rows come in chronological or
\* in reverse chronological order
DataFrames ==
    {d \in SeqsUpTo(Reports, MaxReports) :
        /\ \A i, j \in 1..Len(d) : i # j => d[i] # d[j]
        /\ \/ \A i \in 1..(Len(d) - 1) : d[i].ts <= d[i + 1].ts
           \/ \A i \in 1..(Len(d) - 1) : d[i].ts >= d[i + 1].ts}

Perms(n) == {p \in [1..n -> 1..n] : \A i, j \in 1..n : i # j => p[i] # p[j]}

\* df.sort_values(by=timestamp): rows with equal timestamps in any order
sort_values(rows) ==
    {[i \in 1..Len(rows) |-> rows[p[i]]] :
        p \in {q \in Perms(Len(rows)) :
                 \A i \in 1..(Len(rows) - 1) : rows[q[i]].ts <= rows[q[i + 1]].ts}}

\* split.is_split_point: the time gap between the two reports exceeds the
\* maximum allowed gap
is_split_point(msg_t0, msg_t1) == msg_t1.ts - msg_t0.ts > MaxTGap

Last(s) == s[Len(s)]

\* on a split the current track is emptied instead of a new one being opened
PlaceMsg_overwrite(tracks, msg, split) ==
    IF split THEN [tracks EXCEPT ![Len(tracks)] = <<msg>>]
    ELSE [tracks EXCEPT ![Len(tracks)] = Append(@, msg)]

\* if split: tracks.append([]);  tracks[-1].append(msg)
PlaceMsg(tracks, msg, split) ==
    LET t1 == IF split THEN Append(tracks, <<>>) ELSE tracks
    IN [t1 EXCEPT ![Len(t1)] = Append(@, msg)]

\* list.remove(x): drops the first element equal to x
RECURSIVE ListRemove(_, _)
ListRemove(list, x) ==
    IF list = <<>> THEN <<>>
    ELSE IF Head(list) = x THEN Tail(list)
    ELSE <<Head(list)>> \o ListRemove(Tail(list), x)

\* for track in tv.tracks: if len(track) < 2: tv.tracks.remove(track)
\* (the list iterator goes on at the next index of the shortened list)
RECURSIVE RemoveWhileIterating(_, _)
RemoveWhileIterating(tracks, i) ==
    IF i > Len(tracks) THEN tracks
    ELSE IF Len(tracks[i]) < 2
         THEN RemoveWhileIterating(ListRemove(tracks, tracks[i]), i + 1)
         ELSE RemoveWhileIterating(tracks, i + 1)

LongTracks(tracks) == SelectSeq(tracks, LAMBDA track : Len(track) >= 2)

\* _remove_single_obs
_remove_single_obs(tgts) ==
    [i \in 1..Len(tgts) |-> [tgts[i] EXCEPT !.tracks = LongTracks(@)]]

\* _overlaps_search_date
_overlaps_search_date(track, tpos) == track[1].ts < tpos /\ tpos < Last(track).ts

\* _filter_overlapping
_filter_overlapping(tgts, tpos) ==
    [i \in 1..Len(tgts) |->
        [tgts[i] EXCEPT !.tracks =
            SelectSeq(@, LAMBDA track : _overlaps_search_date(track, tpos))]]

\* _distribute: one frame per MMSI, in order of first appearance
RECURSIVE UniqueMmsis(_)
UniqueMmsis(rows) ==
    IF rows = <<>> THEN <<>>
    ELSE LET rest == UniqueMmsis(SubSeq(rows, 1, Len(rows) - 1))
         IN IF \E i \in 1..Len(rest) : rest[i] = Last(rows).mmsi THEN rest
            ELSE Append(rest, Last(rows).mmsi)

_distribute(rows) ==
    [k \in 1..Len(UniqueMmsis(rows)) |->
        SelectSeq(rows, LAMBDA row : row.mmsi = UniqueMmsis(rows)[k])]

NoVessel == TargetShip(0, 0, <<>>)
TposValues == {2}

CIdle ==
    /\ df = <<>>
    /\ c_skip = FALSE
    /\ c_pc = "idle"
    /\ c_overlap = FALSE
    /\ c_tpos = 0
    /\ stream = <<>>
    /\ idx = 1
    /\ targets = <<>>
    /\ tv = NoVessel
    /\ frames = <<>>
    /\ f_idx = 1
    /\ pool_results = <<>>
    /\ c_results = [sp |-> <<>>, mp |-> <<>>]
    /\ c_done = [sp |-> FALSE, mp |-> FALSE]

ConstructInit ==
    /\ df \in DataFrames
    /\ c_skip \in BOOLEAN
    /\ c_pc = "idle"
    /\ c_overlap = FALSE
    /\ c_tpos = 0
    /\ stream = <<>>
    /\ idx = 1
    /\ targets = <<>>
    /\ tv = NoVessel
    /\ frames = <<>>
    /\ f_idx = 1
    /\ pool_results = <<>>
    /\ c_results = [sp |-> <<>>, mp |-> <<>>]
    /\ c_done = [sp |-> FALSE, mp |-> FALSE]

\* construct_target_vessels(df, tpos, overlap, njobs=1, skip_tsplit):
\* _sp_construct_target_vessels up to the sort
SpStart(overlap, tpos) ==
    /\ c_pc = "idle"
    /\ ~c_done.sp
    /\ c_overlap' = overlap
    /\ c_tpos' = tpos
    /\ \E s \in sort_values(df) : stream' = s
    /\ idx' = 1
    /\ targets' = <<>>
    /\ c_pc' = "sp_loop"
    /\ UNCHANGED <<df, c_skip, tv, frames, f_idx, pool_results, c_results, c_done,
                   rvars, ivars, nvars, xvars>>

\* the body of the loop of _sp_construct_target_vessels for the row `msg`
SpPlace(tgts, msg) ==
    IF ~HasKey(tgts, msg.mmsi)
    THEN Append(tgts, TargetShip(msg.mmsi, _get_ship_type(msg.mmsi), <<<<msg>>>>))
    ELSE LET i == KeyIndex(tgts, msg.mmsi)
         IN [tgts EXCEPT ![i].tracks =
                PlaceMsg(@, msg, is_split_point(Last(Last(@)), msg))]

\* one pass of the loop of _sp_construct_target_vessels
SpStep ==
    /\ c_pc = "sp_loop"
    /\ idx <= Len(stream)
    /\ targets' = SpPlace(targets, stream[idx])
    /\ idx' = idx + 1
    /\ UNCHANGED <<df, c_skip, c_pc, c_overlap, c_tpos, stream, tv, frames, f_idx,
                   pool_results, c_results, c_done, rvars, ivars, nvars, xvars>>

\* after the loop: self._remove_single_obs(targets)
SpPostPass ==
    /\ c_pc = "sp_loop"
    /\ idx > Len(stream)
    /\ targets' = _remove_single_obs(targets)
    /\ c_pc' = "sp_filter"
    /\ UNCHANGED <<df, c_skip, c_overlap, c_tpos, stream, idx, tv, frames, f_idx,
                   pool_results, c_results, c_done, rvars, ivars, nvars, xvars>>

\* if overlap: self._filter_overlapping(targets, tpos);  return targets
SpReturn ==
    /\ c_pc = "sp_filter"
    /\ c_results' = [c_results EXCEPT !.sp =
                        IF c_overlap THEN _filter_overlapping(targets, c_tpos)
                        ELSE targets]
    /\ c_done' = [c_done EXCEPT !.sp = TRUE]
    /\ c_pc' = "idle"
    /\ stream' = <<>>
    /\ idx' = 1
    /\ targets' = <<>>
    /\ UNCHANGED <<df, c_skip, c_overlap, c_tpos, tv, frames, f_idx, pool_results,
                   rvars, ivars, nvars, xvars>>

\* construct_target_vessels(df, tpos, overlap, njobs > 1, skip_tsplit):
\* _mp_construct_target_vessels up to pool.starmap
MpStart ==
    /\ c_pc = "idle"
    /\ ~c_done.mp
    /\ frames' = _distribute(df)
    /\ f_idx' = 1
    /\ pool_results' = <<>>
    /\ c_pc' = "mp_pool"
    /\ UNCHANGED <<df, c_skip, c_overlap, c_tpos, stream, idx, targets, tv, c_results,
                   c_done, rvars, ivars, nvars, xvars>>

\* _impl_construct_target_vessel(frame, skip_tsplit) up to the sort
MpWorkerStart ==
    /\ c_pc = "mp_pool"
    /\ f_idx <= Len(frames)
    /\ tv' = TargetShip(frames[f_idx][1].mmsi, _get_ship_type(frames[f_idx][1].mmsi),
                        <<<<>>>>)
    /\ \E s \in sort_values(frames[f_idx]) : stream' = s
    /\ idx' = 1
    /\ c_pc' = "mp_loop"
    /\ UNCHANGED <<df, c_skip, c_overlap, c_tpos, targets, frames, f_idx, pool_results,
                   c_results, c_done, rvars, ivars, nvars, xvars>>

\* one pass of the loop of _impl_construct_target_vessel
MpStep ==
    /\ c_pc = "mp_loop"
    /\ idx <= Len(stream)
    /\ LET msg == stream[idx]
           first == (idx = 1)
       IN tv' = [tv EXCEPT !.tracks =
                    PlaceMsg(@, msg,
                             ~first /\ ~c_skip /\ is_split_point(Last(Last(@)), msg))]
    /\ idx' = idx + 1
    /\ UNCHANGED <<df, c_skip, c_pc, c_overlap, c_tpos, stream, targets, frames, f_idx,
                   pool_results, c_results, c_done, rvars, ivars, nvars, xvars>>

\* after the loop: the removal of single-observation tracks; return {MMSI: tv}
MpWorkerReturn ==
    /\ c_pc = "mp_loop"
    /\ idx > Len(stream)
    /\ pool_results' =
          Append(pool_results, <<[tv EXCEPT !.tracks = RemoveWhileIterating(@, 1)]>>)
    /\ tv' = NoVessel
    /\ stream' = <<>>
    /\ idx' = 1
    /\ f_idx' = f_idx + 1
    /\ c_pc' = "mp_pool"
    /\ UNCHANGED <<df, c_skip, c_overlap, c_tpos, targets, frames, c_results, c_done,
                   rvars, ivars, nvars, xvars>>

RECURSIVE UpdateAll(_, _)
UpdateAll(target, results) ==
    IF results = <<>> THEN target
    ELSE UpdateAll(Update(target, Head(results)), Tail(results))

\* for res in results: targets.update(res);  return targets
MpReturn ==
    /\ c_pc = "mp_pool"
    /\ f_idx > Len(frames)
    /\ c_results' = [c_results EXCEPT !.mp = UpdateAll(<<>>, pool_results)]
    /\ c_done' = [c_done EXCEPT !.mp = TRUE]
    /\ c_pc' = "idle"
    /\ frames' = <<>>
    /\ f_idx' = 1
    /\ pool_results' = <<>>
    /\ UNCHANGED <<df, c_skip, c_overlap, c_tpos, stream, idx, targets, tv, rvars, ivars, nvars, xvars>>

-----------------------------------------------------------------------------
(* search_agent.py: neighbor search *)

\* a buffered report: timestamp [s], position [deg]
Row(ts, lat, lon) == [ts |-> ts, lat |-> lat, lon |-> lon]
RowTimes == {0, 900, 2700}
Rows == {Row(t, lat, lon) : t \in RowTimes, lat \in 0..MaxCoord, lon \in 0..MaxCoord}

\* the buffer after loading, rows in chronological order
Buffers ==
    {b \in SeqsUpTo(Rows, MaxMsgs) : \A i \in 1..(Len(b) - 1) : b[i].ts <= b[i + 1].ts}

\* tpos.position.as_list
QueryPosition == <<0, 0>>

\* squared distance [deg^2] of a row to the query position
Dist2(row) ==
    (row.lat - QueryPosition[1]) * (row.lat - QueryPosition[1])
    + (row.lon - QueryPosition[2]) * (row.lon - QueryPosition[2])

\* _time_filter: rows less than `delta` minutes from `date`, both ends excluded
_time_filter(rows, date, delta) ==
    SelectSeq(rows, LAMBDA row : row.ts > date - delta * 60 /\ row.ts < date + delta * 60)

\* d < distance_upper_bound, with the bound search_radius/60 degrees, or
\* np.inf
BelowUpperBound(d2, search_radius) ==
    IF search_radius = Infinity THEN TRUE
    ELSE NmPerDegree * NmPerDegree * d2 < search_radius * search_radius

\* cKDTree.query(x, k, distance_upper_bound): the k nearest rows closer
\* than the bound, nearest first, equal distances in any order, filled up to
\* k entries with distance inf and index n.  Entries are <<d2, index>>.
TreeQuery(rows, k, search_radius) ==
    LET n == Len(rows)
        cands == {i \in 1..n : BelowUpperBound(Dist2(rows[i]), search_radius)}
        m == IF k < Cardinality(cands) THEN k ELSE Cardinality(cands)
    IN {[j \in 1..k |-> IF j <= m THEN <<Dist2(rows[o[j]]), o[j]>>
                        ELSE <<Infinity, n + 1>>] :
          o \in {q \in [1..m -> cands] :
                   /\ \A i, j \in 1..m : i # j => q[i] # q[j]
                   /\ \A i \in 1..(m - 1) : Dist2(rows[q[i]]) <= Dist2(rows[q[i + 1]])
                   /\ \A c \in cands : (\A i \in 1..m : q[i] # c) =>
                         \A i \in 1..m : Dist2(rows[q[i]]) <= Dist2(rows[c])}}

\* res = [indices[i] for i,j in enumerate(d) if j != float("inf")]
FiniteIndices(found) ==
    LET kept == SelectSeq(found, LAMBDA e : e[1] # Infinity)
    IN [i \in 1..Len(kept) |-> kept[i][2]]

\* filtered.iloc[res]
ILoc(rows, res) == [i \in 1..Len(res) |-> rows[res[i]]]

SearchRadii == {30 * r : r \in 0..MaxRadiusSteps} \cup {Infinity}

NIdle ==
    /\ dynamic_msgs = <<>>
    /\ max_tgt_ships = 1
    /\ n_tpos = 0
    /\ n_radius = 0
    /\ n_status = "idle"
    /\ n_result = <<>>
    /\ n_warned = FALSE
    /\ tree_built = FALSE

\* SearchAgent(...) and init(): the buffer is loaded
NeighborsInit ==
    /\ dynamic_msgs \in Buffers
    /\ max_tgt_ships \in 1..MaxK
    /\ n_tpos = 0
    /\ n_radius = 0
    /\ n_status = "idle"
    /\ n_result = <<>>
    /\ n_warned = FALSE
    /\ tree_built = FALSE

\* _get_neighbors on the buffer `rows` with k = max_tgt_ships: what a call
\* can come to
NeighborOutcomes(rows, k, tpos, search_radius) ==
    IF rows = <<>>
    THEN \* _time_filter: df[timestamp].iloc[0] of an empty frame
         {[status |-> "IndexError", result |-> <<>>, warned |-> FALSE, tree |-> FALSE]}
    ELSE LET filtered == _time_filter(rows, tpos, time_delta)
         IN IF filtered = <<>>
            THEN {[status |-> "returned", result |-> filtered, warned |-> TRUE,
                   tree |-> FALSE]}
            ELSE IF k = 1
            THEN \* query with k=1 returns a scalar d: enumerate(d)
                 {[status |-> "TypeError", result |-> <<>>, warned |-> FALSE,
                   tree |-> TRUE]}
            ELSE {[status |-> "returned", result |-> ILoc(filtered, FiniteIndices(found)),
                   warned |-> FALSE, tree |-> TRUE] :
                    found \in TreeQuery(filtered, k, search_radius)}

\* _get_neighbors(tpos, search_radius)
_get_neighbors(tpos, search_radius) ==
    /\ n_status = "idle"
    /\ n_tpos' = tpos
    /\ n_radius' = search_radius
    /\ \E o \in NeighborOutcomes(dynamic_msgs, max_tgt_ships, tpos, search_radius) :
          /\ n_status' = o.status
          /\ n_result' = o.result
          /\ n_warned' = o.warned
          /\ tree_built' = o.tree
    /\ UNCHANGED <<dynamic_msgs, max_tgt_ships, rvars, ivars, cvars, xvars>>

-----------------------------------------------------------------------------
(* search_agent.py: the SearchAgent object, init and get_ships *)

\* a row of a dynamic message file
FileRow(mmsi, ts, lat, lon) == [mmsi |-> mmsi, ts |-> ts, lat |-> lat, lon |-> lon]

\* SearchAgent.FRAME; spatial_filter keeps the rows strictly inside
FRAME == [LATMIN |-> -1, LATMAX |-> 2, LONMIN |-> -1, LONMAX |-> 2]
spatial_filter(row) ==
    /\ row.lon > FRAME.LONMIN
    /\ row.lon < FRAME.LONMAX
    /\ row.lat > FRAME.LATMIN
    /\ row.lat < FRAME.LATMAX

\* the rows of the files: reports of vessel 1 and a report of vessel 2 at the
\* query position, and a report of vessel 2 outside the frame
AgentTimes == {1, 2, 3}
FileRows ==
    {FileRow(1, t, 0, 0) : t \in AgentTimes}
    \cup {FileRow(2, 1, 0, 0), FileRow(2, 3, 2, 0)}

\* the content of one file, rows in chronological order
FileContents ==
    {f \in SeqsUpTo(FileRows, MaxFileRows) :
        \A i \in 1..(Len(f) - 1) : f[i].ts <= f[i + 1].ts}

\* msg12318files: one file, or two files the second of which holds one row,
\* with at most MaxFileRows rows in all
FileLists ==
    {<<f>> : f \in FileContents}
    \cup {<<f, <<r>>>> : f \in {h \in FileContents : Len(h) < MaxFileRows},
                         r \in FileRows}

\* what pd.read_csv raises on an unreadable file
ReadErrors == {"FileNotFoundError"}

\* drop_duplicates(subset=[timestamp, mmsi], keep="first")
RECURSIVE drop_duplicates(_)
drop_duplicates(rows) ==
    IF rows = <<>> THEN <<>>
    ELSE LET front == drop_duplicates(SubSeq(rows, 1, Len(rows) - 1))
             row == Last(rows)
         IN IF \E i \in 1..Len(front) :
                   front[i].ts = row.ts /\ front[i].mmsi = row.mmsi
            THEN front
            ELSE Append(front, row)

\* the loop of _load_dynamic_messages from file i on; `bad` are the files
\* read_csv fails on.  st = [n_original, n_filtered, snippets, exc]
RECURSIVE LoadFiles(_, _, _, _)
LoadFiles(files, i, bad, st) ==
    IF i > Len(files) THEN st
    ELSE IF i \in bad THEN [st EXCEPT !.exc = "FileLoadingError"]
    ELSE LET msg12318 == drop_duplicates(files[i])
         IN LoadFiles(files, i + 1, bad,
                      [st EXCEPT !.n_original = @ + Len(files[i]),
                                 !.n_filtered = @ + Len(msg12318),
                                 !.snippets = @ \o SelectSeq(msg12318, spatial_filter)])

\* _load_dynamic_messages: the counters are those of the agent
_load_dynamic_messages(files, bad, n_original, n_filtered) ==
    LoadFiles(files, 1, bad,
              [n_original |-> n_original, n_filtered |-> n_filtered,
               snippets |-> <<>>, exc |-> ""])

\* _load_static_messages: read_csv of the msg5 files is not wrapped, its
\* exception reaches the caller as it is
_load_static_messages(error) == IF error = "" THEN "loaded" ELSE error

\* the interpolation modes a caller may pass, one of them not supported
InterpolationModes == {"linear", "spline", "auto"}
ModeArguments == {"linear", "cubic"}

\* the asserts of get_ships checking only the initialization
GetShipsAsserts_lax(initialized, interpolation) == initialized

\* the two asserts at the head of get_ships
GetShipsAsserts(initialized, interpolation) ==
    initialized /\ interpolation \in InterpolationModes

\* _sp_construct_target_vessels: the loop over the sorted rows
RECURSIVE SpLoop(_, _)
SpLoop(rows, tgts) ==
    IF rows = <<>> THEN tgts
    ELSE SpLoop(Tail(rows), SpPlace(tgts, Head(rows)))

\* _sp_construct_target_vessels(df, tpos, overlap): one result for each order
\* sort_values may leave the rows in
_sp_construct_target_vessels(rows, tpos, overlap) ==
    {LET tgts == _remove_single_obs(SpLoop(s, <<>>))
     IN IF overlap THEN _filter_overlapping(tgts, tpos) ELSE tgts :
        s \in sort_values(rows)}

\* TargetShip.interpolate(mode) raises InterpolationError when a track has
\* too few points for the mode: a spline needs MinSplinePoints reports, a
\* line two; "auto" falls back to the line
MinSplinePoints == 3
MinPoints(mode) == IF mode = "spline" THEN MinSplinePoints ELSE 2
InterpolationFails(tgt, mode) ==
    \E i \in 1..Len(tgt.tracks) : Len(tgt.tracks[i]) < MinPoints(mode)

\* a deletion that drops the first entry of the dict
DelKey_first(tgts, mmsi) == Tail(tgts)

\* del tgts[mmsi]
DelKey(tgts, mmsi) == SelectSeq(tgts, LAMBDA v : v.mmsi # mmsi)

\* the loop of _interpolate_trajectories over list(tgts.items())
RECURSIVE InterpolateLoop(_, _, _)
InterpolateLoop(items, tgts, mode) ==
    IF items = <<>> THEN tgts
    ELSE InterpolateLoop(Tail(items),
                         IF InterpolationFails(Head(items), mode)
                         THEN DelKey(tgts, Head(items).mmsi)
                         ELSE tgts,
                         mode)

\* _interpolate_trajectories(tgts, mode)
_interpolate_trajectories(tgts, mode) == InterpolateLoop(tgts, tgts, mode)

NoCall == [op |-> "none"]
QueryTimes == {2, 3}
QueryRadii == {Infinity}

AIdle ==
    /\ msg12318files = <<>>
    /\ _is_initialized = FALSE
    /\ _n_original = 0
    /\ _n_filtered = 0
    /\ tables = {}
    /\ n_inits = 0
    /\ a_call = NoCall
    /\ a_status = "idle"
    /\ a_trace = <<>>
    /\ g_tgts = <<>>
    /\ g_mode = ""
    /\ g_result = <<>>

\* SearchAgent(msg12318file, frame, msg5file, max_tgt_ships)
AgentInit ==
    /\ msg12318files \in FileLists
    /\ _is_initialized = FALSE
    /\ _n_original = 0
    /\ _n_filtered = 0
    /\ tables = {}
    /\ n_inits = 0
    /\ a_call = NoCall
    /\ a_status = "idle"
    /\ a_trace = <<>>
    /\ g_tgts = <<>>
    /\ g_mode = ""
    /\ g_result = <<>>
    /\ dynamic_msgs = <<>>
    /\ max_tgt_ships = MaxK
    /\ n_tpos = 0
    /\ n_radius = 0
    /\ n_status = "idle"
    /\ n_result = <<>>
    /\ n_warned = FALSE
    /\ tree_built = FALSE

\* init(tpos); read_csv fails on the dynamic files `bad`, and on the static
\* files with `static_error` (when not "")
init(bad, static_error) ==
    /\ n_inits < MaxInits
    /\ n_inits' = n_inits + 1
    /\ a_call' = [op |-> "init"]
    /\ IF _is_initialized
       THEN /\ a_status' = "returned"
            /\ UNCHANGED <<dynamic_msgs, tables, _is_initialized, _n_original,
                           _n_filtered>>
       ELSE LET dyn == _load_dynamic_messages(msg12318files, bad,
                                              _n_original, _n_filtered)
                static == _load_static_messages(static_error)
            IN /\ _n_original' = dyn.n_original
               /\ _n_filtered' = dyn.n_filtered
               /\ IF dyn.exc # ""
                  THEN /\ a_status' = dyn.exc
                       /\ UNCHANGED <<dynamic_msgs, tables, _is_initialized>>
                  ELSE /\ dynamic_msgs' = dyn.snippets
                       /\ IF static # "loaded"
                          THEN /\ a_status' = static
                               /\ tables' = tables \cup {"dynamic_msgs"}
                               /\ UNCHANGED _is_initialized
                          ELSE /\ a_status' = "returned"
                               /\ tables' = {"dynamic_msgs", "static_msgs"}
                               /\ _is_initialized' = TRUE
    /\ UNCHANGED <<msg12318files, a_trace, g_tgts, g_mode, g_result, max_tgt_ships,
                   n_tpos, n_radius, n_status, n_result, n_warned, tree_built,
                   rvars, ivars, cvars, kvars, zvars>>

\* get_ships(tpos, search_radius, interpolation)
get_ships(tpos, search_radius, interpolation) ==
    /\ a_call' = [op |-> "get_ships", tpos |-> tpos, search_radius |-> search_radius,
                  interpolation |-> interpolation]
    /\ IF ~GetShipsAsserts(_is_initialized, interpolation)
       THEN /\ a_status' = "AssertionError"
            /\ a_trace' = <<>>
            /\ g_tgts' = <<>>
            /\ g_mode' = ""
            /\ g_result' = <<>>
       ELSE \E o \in NeighborOutcomes(dynamic_msgs, max_tgt_ships, tpos, search_radius) :
               IF o.status # "returned"
               THEN /\ a_status' = o.status
                    /\ a_trace' = <<"_get_neighbors">>
                    /\ g_tgts' = <<>>
                    /\ g_mode' = ""
                    /\ g_result' = <<>>
               ELSE \E tgts \in _sp_construct_target_vessels(o.result, tpos, TRUE) :
                       /\ a_status' = "returned"
                       /\ a_trace' = <<"_get_neighbors", "construct_target_vessels",
                                       "_interpolate_trajectories">>
                       /\ g_tgts' = tgts
                       /\ g_mode' = interpolation
                       /\ g_result' = _interpolate_trajectories(tgts, interpolation)
    /\ UNCHANGED <<msg12318files, _is_initialized, _n_original, _n_filtered, tables,
                   n_inits, nvars, rvars, ivars, cvars, kvars, zvars>>

\* _interpolate_trajectories(tgts, mode) called on the targets g_tgts
InterpolateInit ==
    /\ g_tgts \in DataSets
    /\ msg12318files = <<>>
    /\ _is_initialized = FALSE
    /\ _n_original = 0
    /\ _n_filtered = 0
    /\ tables = {}
    /\ n_inits = 0
    /\ a_call = NoCall
    /\ a_status = "idle"
    /\ a_trace = <<>>
    /\ g_mode = ""
    /\ g_result = <<>>

Interpolate(mode) ==
    /\ a_status = "idle"
    /\ a_call' = [op |-> "_interpolate_trajectories"]
    /\ a_status' = "returned"
    /\ a_trace' = <<"_interpolate_trajectories">>
    /\ g_mode' = mode
    /\ g_result' = _interpolate_trajectories(g_tgts, mode)
    /\ UNCHANGED <<msg12318files, _is_initialized, _n_original, _n_filtered, tables,
                   n_inits, g_tgts, nvars, rvars, ivars, cvars, kvars, zvars>>

-----------------------------------------------------------------------------
(* search_agent.py: speed correction *)

\* an AISMessage with the fields the correction reads: timestamp [s],
\* position [deg], speed over ground
AISMessage(ts, lat, lon, SOG) == [ts |-> ts, lat |-> lat, lon |-> lon, SOG |-> SOG]

SecondsPerHour == 3600

\* np.sqrt of a square number
ISqrt(n) == CHOOSE r \in 0..n : r * r <= n /\ n < (r + 1) * (r + 1)

\* _time_mean_speed [deg/h]; the reports of a track are a whole number of
\* hours apart, one degree per hour being the slowest speed above zero
_time_mean_speed(msg_t0, msg_t1) ==
    LET lat_offset == (msg_t1.lat - msg_t0.lat) * (msg_t1.lat - msg_t0.lat)
        lon_offset == (msg_t1.lon - msg_t0.lon) * (msg_t1.lon - msg_t0.lon)
        time_offset == msg_t1.ts - msg_t0.ts
    IN (ISqrt(lat_offset + lon_offset) * SecondsPerHour) \div time_offset

\* more_itertools.pairwise(iterable)
pairwise(s) == [i \in 1..(Len(s) - 1) |-> <<s[i], s[i + 1]>>]

\* the tracks handed to the correction: two reports an hour apart
CorrectionReports(ts) ==
    {AISMessage(ts, lat, 0, sog) : lat \in 0..MaxCoord, sog \in 0..MaxSog}
CorrectionTracks(ts) ==
    {<<r0, r1>> : r0 \in CorrectionReports(ts),
                  r1 \in CorrectionReports(ts + SecondsPerHour)}

\* the targets handed to _speed_correction: one vessel with one or two tracks
CorrectionTargets ==
    {<<TargetShip(1, _get_ship_type(1), <<t1>>)>> : t1 \in CorrectionTracks(0)}
    \cup {<<TargetShip(1, _get_ship_type(1), <<t1, t2>>)>> :
            t1 \in CorrectionTracks(0),
            t2 \in {<<AISMessage(3 * SecondsPerHour, 0, 0, s),
                      AISMessage(4 * SecondsPerHour, 0, 0, s)>> : s \in {0, MaxSog}}}

KIdle ==
    /\ k_targets = <<>>
    /\ _n_speed_correction = 0
    /\ k_status = "idle"

CorrectionInit ==
    /\ k_targets \in CorrectionTargets
    /\ _n_speed_correction = 0
    /\ k_status = "idle"

\* _speed_correction(targets): msg_t0, msg_t1 run over pairwise(target.tracks),
\* the pairs of adjacent TRACKS of a vessel; a track is a list and has none of
\* the attributes lat, lon, timestamp that _time_mean_speed reads, so the
\* first pair raises AttributeError before anything is written
_speed_correction ==
    /\ k_status = "idle"
    /\ k_status' =
          IF \E i \in 1..Len(k_targets) : pairwise(k_targets[i].tracks) # <<>>
          THEN "AttributeError"
          ELSE "returned"
    /\ UNCHANGED <<k_targets, _n_speed_correction, rvars, ivars, cvars, nvars, avars,
                   zvars>>

-----------------------------------------------------------------------------
(* rules.py: too_small_span *)

\* np.ptp: the range of the values
Max(S) == CHOOSE x \in S : \A y \in S : y <= x
Min(S) == CHOOSE x \in S : \A y \in S : x <= y
ptp(values) == Max(Range(values)) - Min(Range(values))

\* too_small_span(track, span)
too_small_span(track, span) ==
    LET lat_span == ptp([i \in 1..Len(track) |-> track[i].lat])
        lon_span == ptp([i \in 1..Len(track) |-> track[i].lon])
    IN lat_span > span /\ lon_span > span

\* tracks of two reports, and the spans asked for
SpanPoints == {[lat |-> lat, lon |-> lon] : lat, lon \in 0..(MaxCoord + 1)}
SpanTracks == {<<p, q>> : p, q \in SpanPoints}
Spans == 0..MaxCoord

ZIdle ==
    /\ span_track = <<>>
    /\ span_arg = 0
    /\ span_ret = "none"

SpanInit ==
    /\ span_track \in SpanTracks
    /\ span_arg = 0
    /\ span_ret = "none"

\* a call too_small_span(track, span)
CallTooSmallSpan(span) ==
    /\ span_ret = "none"
    /\ span_arg' = span
    /\ span_ret' = IF too_small_span(span_track, span) THEN "True" ELSE "False"
    /\ UNCHANGED <<span_track, rvars, ivars, cvars, nvars, avars, kvars>>

XIdle == AIdle /\ KIdle /\ ZIdle

-----------------------------------------------------------------------------
(* Specifications *)

SpecInspectInit == InspectorInit /\ RIdle /\ CIdle /\ NIdle /\ XIdle

SpecInspectNext ==
    \/ InspectSequential
    \/ \E njobs \in 2..MaxJobs : InspectParallel(njobs)

SpecInspect == SpecInspectInit /\ [][SpecInspectNext]_vars

SpecRecipeInit == RIdle /\ IIdle /\ CIdle /\ NIdle /\ XIdle

SpecRecipeNext ==
    \/ \E funcs \in SeqsUpTo(RuleObjects, MaxRules) : NewRecipe(funcs)
    \/ \E track \in RecipeTracks : EvalCooked(track)

SpecRecipe == SpecRecipeInit /\ [][SpecRecipeNext]_vars

SpecConstructInit == ConstructInit /\ RIdle /\ IIdle /\ NIdle /\ XIdle

SpecConstructNext ==
    \/ SpStart(FALSE, 0)
    \/ \E tpos \in TposValues : SpStart(TRUE, tpos)
    \/ SpStep
    \/ SpPostPass
    \/ SpReturn
    \/ MpStart
    \/ MpWorkerStart
    \/ MpStep
    \/ MpWorkerReturn
    \/ MpReturn

SpecConstruct == SpecConstructInit /\ [][SpecConstructNext]_vars

SpecNeighborsInit == NeighborsInit /\ RIdle /\ IIdle /\ CIdle /\ XIdle

SpecNeighborsNext ==
    \E tpos \in RowTimes, search_radius \in SearchRadii : _get_neighbors(tpos, search_radius)

SpecNeighbors == SpecNeighborsInit /\ [][SpecNeighborsNext]_vars

SpecAgentInit == AgentInit /\ RIdle /\ IIdle /\ CIdle /\ KIdle /\ ZIdle

SpecAgentNext ==
    \/ \E bad \in SUBSET (1..Len(msg12318files)), e \in ReadErrors \cup {""} :
          init(bad, e)
    \/ \E tpos \in QueryTimes, search_radius \in QueryRadii,
          interpolation \in ModeArguments :
          get_ships(tpos, search_radius, interpolation)

SpecAgent == SpecAgentInit /\ [][SpecAgentNext]_vars

SpecInterpolateInit == InterpolateInit /\ RIdle /\ IIdle /\ CIdle /\ NIdle /\ KIdle /\ ZIdle

SpecInterpolateNext == \E mode \in InterpolationModes : Interpolate(mode)

SpecInterpolate == SpecInterpolateInit /\ [][SpecInterpolateNext]_vars

SpecCorrectionInit == CorrectionInit /\ RIdle /\ IIdle /\ CIdle /\ NIdle /\ AIdle /\ ZIdle

SpecCorrectionNext == _speed_correction

SpecCorrection == SpecCorrectionInit /\ [][SpecCorrectionNext]_vars

SpecSpanInit == SpanInit /\ RIdle /\ IIdle /\ CIdle /\ NIdle /\ AIdle /\ KIdle

SpecSpanNext == \E span \in Spans : CallTooSmallSpan(span)

SpecSpan == SpecSpanInit /\ [][SpecSpanNext]_vars

-----------------------------------------------------------------------------
(* Properties of the rule engine *)

\* C3: the predicate returned by Recipe.cook() is true for a track exactly
\* when every rule of the recipe is true for that track; Recipe(R1,R2) with
\* R1 always true and R2 always false rejects no track, Recipe(R1,R1)
\* rejects every track.
C3_RecipeAnd ==
    r_evals > 0 =>
        /\ r_verdict = (\A i \in 1..Len(r_funcs) : CallRule(r_funcs[i], r_track))
        /\ (r_funcs = <<AlwaysTrue, AlwaysFalse>> => ~r_verdict)
        /\ (r_funcs = <<AlwaysTrue, AlwaysTrue>> => r_verdict)

C3_Witness ==
    /\ r_evals > 0
    /\ r_funcs = <<AlwaysTrue, AlwaysFalse>>
    /\ Len(r_track) > 0
    /\ ~r_verdict

\* the parameters of a rule that the caller still has to supply
FreeParams(f) == {i \in 1..Len(f.params) : f.params[i].name \notin f.kw}

\* what the contract calls an invalid rule: not a callable, not exactly one
\* parameter, that parameter not a Track, or no boolean return
InvalidRule(f) ==
    \/ ~f.callable
    \/ Cardinality(FreeParams(f)) # 1
    \/ \E i \in FreeParams(f) : f.params[i].ann # TrackAnn
    \/ f.ret # "bool"

\* C7: Recipe(...) raises TypeError during construction whenever one of the
\* supplied rules is invalid, so no invalid rule reaches the evaluation of
\* the cooked predicate.
C7_TypeErrorAtConstruction ==
    (r_state # "none" /\ \E i \in 1..Len(r_funcs) : InvalidRule(r_funcs[i]))
        => (r_state = "raised" /\ r_exc = "TypeError")

\* C8: Recipe(partial(too_few_obs, n=3)) is accepted at construction and its
\* cooked predicate rejects a track exactly when the track has fewer than 3
\* reports.
C8_PartialRecipe ==
    (r_state # "none" /\ r_funcs = <<Partial(too_few_obs, 3)>>)
        => /\ r_state = "constructed"
           /\ (r_evals > 0 => r_verdict = (Len(r_track) < 3))

-----------------------------------------------------------------------------
(* Properties of the partitioner *)

TotalTracks(tgts) == SumSeq([i \in 1..Len(tgts) |-> Len(tgts[i].tracks)])

\* how often `track` occurs in the entry of vessel `mmsi` in `tgts`
Occurrences(tgts, mmsi, track) ==
    IF HasKey(tgts, mmsi)
    THEN Cardinality({j \in 1..Len(Get(tgts, mmsi).tracks) :
                        Get(tgts, mmsi).tracks[j] = track})
    ELSE 0

\* every track of `tgts` is a track of the same vessel of the input
OnlyInputTracks(tgts) ==
    \A i \in 1..Len(tgts) :
        /\ HasKey(data, tgts[i].mmsi)
        /\ Range(tgts[i].tracks) \subseteq Range(Get(data, tgts[i].mmsi).tracks)

\* C1: after one call of inspect on a fresh Inspector, with any njobs >= 1,
\* every (vessel, track) pair of the input is exactly once in the returned
\* collections: in rejected when the cooked recipe is true for the track, in
\* accepted otherwise; the outputs hold no track that was not in the input.
C1_PartitionComplete ==
    (ncalls = 1 /\ TotalTracks(data) > 0) =>
        /\ i_status = "returned"
        /\ \A i \in 1..Len(data) : \A j \in 1..Len(data[i].tracks) :
              LET track == data[i].tracks[j]
                  in_a == Occurrences(ret.a, data[i].mmsi, track)
                  in_r == Occurrences(ret.r, data[i].mmsi, track)
              IN IF cooked(recipe, track) THEN in_r = 1 /\ in_a = 0
                 ELSE in_a = 1 /\ in_r = 0
        /\ OnlyInputTracks(ret.a)
        /\ OnlyInputTracks(ret.r)

\* the entries of a returned collection: the source vessel's attributes, a
\* non-empty track list, and only tracks with the verdict `rej`
EntriesOk(tgts, rej) ==
    \A i \in 1..Len(tgts) :
        /\ HasKey(data, tgts[i].mmsi)
        /\ tgts[i].ship_type = Get(data, tgts[i].mmsi).ship_type
        /\ tgts[i].tracks # <<>>
        /\ \A track \in Range(tgts[i].tracks) :
              /\ track \in Range(Get(data, tgts[i].mmsi).tracks)
              /\ cooked(recipe, track) = rej

\* C6: after inspect a vessel id is a key of accepted iff one of its tracks
\* was accepted, a key of rejected iff one was rejected; every entry carries
\* the source vessel's attributes and only the tracks routed there, and is
\* never empty.
C6_LazyEntries ==
    i_status = "returned" =>
        /\ \A i \in 1..Len(data) :
              /\ HasKey(ret.a, data[i].mmsi)
                    <=> (\E t \in Range(data[i].tracks) : ~cooked(recipe, t))
              /\ HasKey(ret.r, data[i].mmsi)
                    <=> (\E t \in Range(data[i].tracks) : cooked(recipe, t))
        /\ EntriesOk(ret.a, FALSE)
        /\ EntriesOk(ret.r, TRUE)

\* a vessel with one accepted and one rejected track is in both collections
C6_Witness ==
    /\ i_status = "returned"
    /\ \E m \in Keys(ret.a) \cap Keys(ret.r) :
          Len(Get(ret.a, m).tracks) = 1 /\ Len(Get(ret.r, m).tracks) = 1

-----------------------------------------------------------------------------
(* Properties of track construction *)

AllTracks(tgts) == UNION {Range(tgts[i].tracks) : i \in 1..Len(tgts)}

\* C2: every track of every vessel returned by construct_target_vessels, by
\* the worker path and by the single-process path, has at least 2 reports,
\* also when segmentation yields consecutive single-report tracks.
C2_MinTrackLength ==
    /\ c_done.sp => \A track \in AllTracks(c_results.sp) : Len(track) >= 2
    /\ c_done.mp => \A track \in AllTracks(c_results.mp) : Len(track) >= 2

\* the same mapping vessel id -> ordered list of tracks
SameMapping(t1, t2) ==
    /\ Keys(t1) = Keys(t2)
    /\ \A m \in Keys(t1) : Get(t1, m).tracks = Get(t2, m).tracks

\* C4: for the same reports and the same skip_tsplit setting, with overlap
\* filtering off, construct_target_vessels returns the same mapping
\* vessel id -> ordered list of tracks with njobs = 1 and with njobs > 1.
C4_SequentialParallelEqual ==
    (c_done.sp /\ c_done.mp /\ ~c_overlap) => SameMapping(c_results.sp, c_results.mp)

RECURSIVE Concat(_)
Concat(tracks) == IF tracks = <<>> THEN <<>> ELSE Head(tracks) \o Concat(Tail(tracks))

RowsOf(rows, mmsi) == SelectSeq(rows, LAMBDA row : row.mmsi = mmsi)
Processed == SubSeq(stream, 1, idx - 1)

\* the tracks of the vessel the next row belongs to, before and after a step
\* of the running loop
TracksOf(tgts, vessel, mmsi) ==
    IF c_pc = "mp_loop" THEN vessel.tracks
    ELSE IF HasKey(tgts, mmsi) THEN Get(tgts, mmsi).tracks
    ELSE <<>>

\* while a stream is processed the tracks of each vessel, concatenated, are
\* the rows of that vessel processed so far, in timestamp order (stated of
\* the state after every step; no stream is being processed initially)
C5_PrefixKept ==
    /\ c_pc \in {"sp_loop", "mp_loop"} =>
          \A i \in 1..(Len(stream) - 1) : stream[i].ts <= stream[i + 1].ts
    /\ c_pc = "sp_loop" =>
          /\ \A m \in Mmsis : Concat(TracksOf(targets, tv, m)) = RowsOf(Processed, m)
          /\ stream \in sort_values(df)
    /\ c_pc = "mp_loop" =>
          /\ Concat(tv.tracks) = Processed
          /\ stream \in sort_values(RowsOf(df, tv.mmsi))

\* a step of a loop places the incoming row last in the current track
C5_StepPlaces ==
    (c_pc \in {"sp_loop", "mp_loop"} /\ idx <= Len(stream) /\ idx' = idx + 1) =>
        LET msg == stream[idx]
            after == TracksOf(targets', tv', msg.mmsi)
        IN after # <<>> /\ Last(after) # <<>> /\ Last(Last(after)) = msg

\* `opens` tells, for a step that meets an earlier row of the same vessel,
\* whether the step has to open a new track
C5_StepSplits(opens(_, _)) ==
    (c_pc \in {"sp_loop", "mp_loop"} /\ idx <= Len(stream) /\ idx' = idx + 1) =>
        LET msg == stream[idx]
            before == TracksOf(targets, tv, msg.mmsi)
            after == TracksOf(targets', tv', msg.mmsi)
        IN (before # <<>> /\ Last(before) # <<>>) =>
              ((Len(after) = Len(before) + 1) <=> opens(Last(Last(before)), msg))

\* the post-pass keeps every track of 2 or more reports, in order, and adds
\* none
C5_PostPassOnlyShort ==
    /\ (c_pc = "sp_loop" /\ c_pc' = "sp_filter") =>
          \A i \in 1..Len(targets) :
              /\ LongTracks(targets'[i].tracks) = LongTracks(targets[i].tracks)
              /\ Range(targets'[i].tracks) \subseteq Range(targets[i].tracks)
    /\ (c_pc = "mp_loop" /\ c_pc' = "mp_pool") =>
          /\ LongTracks(Last(pool_results')[1].tracks) = LongTracks(tv.tracks)
          /\ Range(Last(pool_results')[1].tracks) \subseteq Range(tv.tracks)

SplitsUnlessSkipped(msg_t0, msg_t1) ==
    (c_pc = "sp_loop" \/ ~c_skip) /\ is_split_point(msg_t0, msg_t1)

-----------------------------------------------------------------------------
(* Properties of the neighbor search *)

Window == _time_filter(dynamic_msgs, n_tpos, time_delta)

\* no more than search_radius [nm] away from the query position
WithinRadius(row, search_radius) ==
    IF search_radius = Infinity THEN TRUE
    ELSE NmPerDegree * NmPerDegree * Dist2(row) <= search_radius * search_radius

\* how often `row` occurs in `rows`
RowCount(rows, row) == Cardinality({i \in 1..Len(rows) : rows[i] = row})

\* C9: with a result limit k at least the number of time-windowed reports,
\* _get_neighbors returns exactly the reports within the configured radius
\* (radius_nm / 60 degrees) and no others, for radius 0, a finite radius and
\* the unbounded radius; never more than k reports and no padding entry.
C9_DistanceBound ==
    (n_status # "idle" /\ Window # <<>> /\ max_tgt_ships >= Len(Window)) =>
        /\ n_status = "returned"
        /\ Len(n_result) <= max_tgt_ships
        /\ \A row \in Rows :
              RowCount(n_result, row) =
                 IF WithinRadius(row, n_radius) THEN RowCount(Window, row) ELSE 0

\* C10: whenever no buffered report lies in the time window around the
\* query time, also when the buffer is empty, _get_neighbors returns an empty
\* result without raising, and builds no spatial index.
C10_EmptyWindow ==
    (n_status # "idle" /\ \A i \in 1..Len(dynamic_msgs) :
                            ~(/\ dynamic_msgs[i].ts > n_tpos - time_delta * 60
                              /\ dynamic_msgs[i].ts < n_tpos + time_delta * 60)) =>
        /\ n_status = "returned"
        /\ n_result = <<>>
        /\ ~tree_built

-----------------------------------------------------------------------------
(* Properties of the SearchAgent object *)

\* what init and get_ships keep on the agent
AgentState ==
    <<msg12318files, _is_initialized, _n_original, _n_filtered, tables, dynamic_msgs,
      max_tgt_ships>>

\* C11: the flag _is_initialized is raised by an init call that completes
\* and by nothing else, and never lowered; a get_ships call made while it is
\* down, or with an interpolation mode other than linear, spline or auto,
\* raises at once - no neighbor search, no track construction and no
\* interpolation is performed, nothing is returned - and leaves the agent's
\* state as it was.
C11_FailFast ==
    [][/\ (a_call'.op = "init" /\ a_status' = "returned") => _is_initialized'
       /\ _is_initialized => _is_initialized'
       /\ (~_is_initialized /\ _is_initialized') =>
              (a_call'.op = "init" /\ a_status' = "returned")
       /\ (/\ a_call'.op = "get_ships"
           /\ \/ ~_is_initialized
              \/ a_call'.interpolation \notin {"linear", "spline", "auto"}) =>
              /\ a_status' = "AssertionError"
              /\ a_trace' = <<>>
              /\ g_result' = <<>>
              /\ UNCHANGED AgentState]_vars

\* get_ships with an unsupported mode has failed on an initialized agent
\* that holds reports
C11_Witness ==
    /\ a_call.op = "get_ships"
    /\ a_call.interpolation = "cubic"
    /\ a_status = "AssertionError"
    /\ _is_initialized
    /\ dynamic_msgs # <<>>

\* the vessels of `tgts` all of whose tracks have the points `mode` needs
Interpolated(tgts, mode) ==
    SelectSeq(tgts,
              LAMBDA v : \A i \in 1..Len(v.tracks) :
                            Len(v.tracks[i]) >= (IF mode = "spline" THEN MinSplinePoints
                                                 ELSE 2))

\* C12: _interpolate_trajectories raises no InterpolationError; it returns
\* exactly the input vessels whose interpolation succeeded, in their order
\* and with their attributes and tracks unchanged, whichever other vessels
\* failed.
C12_FailureContained ==
    (a_call.op = "_interpolate_trajectories") =>
        /\ a_status = "returned"
        /\ g_result = Interpolated(g_tgts, g_mode)

\* a vessel failed and was dropped, a vessel after it succeeded and is kept
C12_Witness ==
    /\ a_call.op = "_interpolate_trajectories"
    /\ Len(g_tgts) = 2
    /\ Len(g_result) = 1
    /\ g_result[1] = g_tgts[2]
    /\ g_result[1].tracks # <<>>

RECURSIVE TotalRows(_)
TotalRows(files) ==
    IF files = <<>> THEN 0 ELSE Len(Head(files)) + TotalRows(Tail(files))

\* C13: an init call that fails raises FileLoadingError and leaves the
\* agent as it was: not initialized, no message table set, _n_original and
\* _n_filtered unchanged; so the init call that succeeds leaves in
\* _n_original the number of rows of the files, whatever failed before.
C13_NoPartialState ==
    [][/\ (a_call'.op = "init" /\ a_status' # "returned") =>
              /\ a_status' = "FileLoadingError"
              /\ ~_is_initialized'
              /\ tables' = {}
              /\ UNCHANGED <<_n_original, _n_filtered, tables, dynamic_msgs>>
       /\ (~_is_initialized /\ _is_initialized') =>
              _n_original' = TotalRows(msg12318files)]_vars

\* C16: every track of every vessel get_ships returns has its first report
\* before and its last report after the query timestamp, and no returned
\* vessel has an empty track list.
C16_OverlapFiltered ==
    (a_call.op = "get_ships" /\ a_status = "returned") =>
        \A i \in 1..Len(g_result) :
            /\ g_result[i].tracks # <<>>
            /\ \A j \in 1..Len(g_result[i].tracks) :
                  LET track == g_result[i].tracks[j]
                  IN track[1].ts < a_call.tpos /\ a_call.tpos < track[Len(track)].ts

-----------------------------------------------------------------------------
(* Properties of the speed correction *)

\* the time-mean speed of the pair lies in the band, bounds included
InBand(r0, r1) ==
    /\ r0.SOG - (r1.SOG - r0.SOG) <= _time_mean_speed(r0, r1)
    /\ _time_mean_speed(r0, r1) <= r1.SOG + (r1.SOG - r0.SOG)

\* the tracks of the targets as <<vessel index, track index>>
TrackIds(tgts) ==
    {ij \in (1..Len(tgts)) \X (1..MaxTracks) : ij[2] <= Len(tgts[ij[1]].tracks)}

\* C14: _speed_correction does not raise; a pair of adjacent reports whose
\* time-mean speed lies in the band [sog0 - (sog1 - sog0), sog1 + (sog1 -
\* sog0)], bounds included, is left as it is; of a pair outside the band
\* the later report's SOG becomes the time-mean speed and nothing else
\* changes; the counter grows by the number of pairs outside the band.
\* (Stated for tracks of two reports, where no pair follows a corrected one.)
C14_CleanUnchanged ==
    [][(k_status = "idle" /\ k_status' # "idle") =>
          /\ k_status' = "returned"
          /\ Len(k_targets') = Len(k_targets)
          /\ \A ij \in TrackIds(k_targets) :
                LET track == k_targets[ij[1]].tracks[ij[2]]
                    after == k_targets'[ij[1]].tracks[ij[2]]
                IN IF InBand(track[1], track[2])
                   THEN after = track
                   ELSE after = <<track[1],
                                  [track[2] EXCEPT
                                      !.SOG = _time_mean_speed(track[1], track[2])]>>
          /\ _n_speed_correction' = _n_speed_correction +
                Cardinality({ij \in TrackIds(k_targets) :
                    ~InBand(k_targets[ij[1]].tracks[ij[2]][1],
                            k_targets[ij[1]].tracks[ij[2]][2])})]_vars

-----------------------------------------------------------------------------
(* Properties of too_small_span *)

LatSpan(track) == ptp([i \in 1..Len(track) |-> track[i].lat])
LonSpan(track) == ptp([i \in 1..Len(track) |-> track[i].lon])

\* C15: too_small_span(track, span) returns True when the latitude span and
\* the longitude span of the track are both smaller than `span`, and False
\* when both are larger than `span`.
C15_SmallSpan ==
    (span_ret # "none") =>
        /\ (LatSpan(span_track) < span_arg /\ LonSpan(span_track) < span_arg)
              => span_ret = "True"
        /\ (LatSpan(span_track) > span_arg /\ LonSpan(span_track) > span_arg)
              => span_ret = "False"

-----------------------------------------------------------------------------
(* Further properties of the partitioner *)

C18_RepeatedInspect ==
    (i_status = "returned") =>
        /\ \A i \in 1..Len(data) : \A j \in 1..Len(data[i].tracks) :
              LET track == data[i].tracks[j]
                  in_a == Occurrences(ret.a, data[i].mmsi, track)
                  in_r == Occurrences(ret.r, data[i].mmsi, track)
              IN IF cooked(recipe, track) THEN in_r = 1 /\ in_a = 0
                 ELSE in_a = 1 /\ in_r = 0
        /\ i_report.n_rejected <= i_report.n_total

\* C19: a call of inspect, with any njobs >= 1, on an input that is empty
\* or whose vessels have no tracks returns two empty collections and does
\* not raise.
C19_NoTracks ==
    (ncalls > 0 /\ TotalTracks(data) = 0) =>
        /\ i_status = "returned"
        /\ ret.a = <<>>
        /\ ret.r = <<>>

=============================================================================
